---- MODULE Spec2Model ----
(***************************************************************************)
(* A model of src/server.js: the Dropbox relay server.                     *)
(*                                                                         *)
(*   refreshAccessToken   the process-wide token cache (lines 23-24, 69-103)*)
(*   uploadToDropbox      single-shot or session upload (lines 143-269)    *)
(*   app.post("/upload")  the relay handler (lines 272-372)                *)
(*                                                                         *)
(* Every request is a sequential process that other requests interleave    *)
(* with at its await points only (Node runs one callback at a time), so    *)
(* each action below is the code between two awaits.                       *)
(*                                                                         *)
(* Units: time is in milliseconds, as Date.now() gives it, and the clock   *)
(* advances one second at a time.  Sizes are counted in units of 50 MiB,   *)
(* so that CHUNK_SIZE (100 MiB) is 2.                                       *)
(***************************************************************************)
EXTENDS Integers, Sequences, FiniteSets, TLC

\* ---------------------------------------------------------------- bounds
NumReq == 2       \* requests the server handles at a time
MaxRelays == 2    \* requests the server receives in all
MaxTime == 1      \* seconds the clock runs
MaxFiles == 1     \* files of one request
MaxSize == 5      \* size of a produced archive
MaxLife == 2      \* expires_in the token endpoint returns, in seconds

Req == 1..NumReq

\* ------------------------------------------------------- program constants
CHUNK_SIZE == 2
MsPerSec == 1000
MsPerDay == 86400000
null == 0

\* JavaScript truthiness of a value that is null or a positive number.
Truthy(x) == x # null

Min(a, b) == IF a <= b THEN a ELSE b

\* formData.fieldN || "fallback": the empty (or missing) field is falsy.
OrDefault(s, d) == IF s = "" THEN d ELSE s

\* The form fields a request may carry (field1, field2, field5 name the archive).
Forms ==
  { [field1 |-> "a", field2 |-> "b", field5 |-> "c"],
    [field1 |-> "",  field2 |-> "b", field5 |-> "c"] }

\* date.toISOString().split("T")[0].replace(/-/g, ""): the UTC day of a time.
DayNames == <<"19700101", "19700102">>
DateStr(ms) == DayNames[(ms \div MsPerDay) + 1]

\* `${dateStr}_${nom}_${prenom}_${morceau}.zip`
ArchiveName(ms, form) ==
  DateStr(ms) \o "_" \o OrDefault(form.field1, "inconnu")
              \o "_" \o OrDefault(form.field2, "inconnu")
              \o "_" \o OrDefault(form.field5, "projet") \o ".zip"

ArchivePath(name) == "./uploads/" \o name

\* multer's storage.filename under storage.destination.
OriginalName(i) == "f" \o ToString(i) \o ".wav"
StagedPath(ms, originalname) ==
  "./uploads/" \o ToString(ms) \o "_" \o originalname

\* The files multer stages for a request of n files received at time ms.
StagedFiles(ms, n) ==
  { [path |-> StagedPath(ms, OriginalName(i)),
     originalname |-> OriginalName(i), size |-> 1] : i \in 1..n }

\* What a request of the client may carry: a number of files, and a form.
Uploads == (0..MaxFiles) \X Forms

\* ---------------------------------------------------------------- state
VARIABLES
  time,         \* Date.now()
  accessToken,  \* the cached token (null: none)
  tokenExpiry,  \* the cached expiry (null: none)
  issued,       \* tokens the token endpoint has issued so far
  disk,         \* local storage: path -> the request slot that wrote the file
  crashed,      \* the process died of an uncaught exception
  relays,       \* requests received so far
  pc,           \* where each request slot is
  files,        \* req.files
  formData,     \* req.body
  now,          \* refreshAccessToken's `now`
  tokResp,      \* the token endpoint's response in flight
  token,        \* the handler's `token`
  archiveName,  \* the handler's `archiveName`
  fileSize,     \* uploadToDropbox's `fileSize`
  sessionId,    \* uploadToDropbox's `sessionId`
  offset,       \* uploadToDropbox's `offset`
  chunkNumber,  \* uploadToDropbox's `chunkNumber`
  readPos,      \* the bytes uploadToDropbox's fileStream has delivered
  calls,        \* history: the remote upload calls of the request, in order
  res,          \* history: the responses sent to the client
  nFetch,       \* history: calls to the token endpoint made for the request
  prevFetch,    \* history: nFetch of the request the slot served before
  prevToken,    \* history: token of the request the slot served before
  cacheAtStart  \* history: the cache as the request's refreshAccessToken found it

vars == <<time, accessToken, tokenExpiry, issued, disk, crashed, relays, pc,
          files, formData, now, tokResp, token, archiveName, fileSize,
          sessionId, offset, chunkNumber, readPos, calls, res, nFetch, prevFetch,
          prevToken, cacheAtStart>>

tokenVars == <<accessToken, tokenExpiry>>
uploadVars == <<fileSize, sessionId, offset, chunkNumber, readPos, calls>>
histVars == <<nFetch, prevFetch, prevToken, cacheAtStart>>

NoResp == [ok |-> FALSE, access_token |-> null, expires_in |-> null]

Init ==
  /\ time = 0
  /\ accessToken = null
  /\ tokenExpiry = null
  /\ issued = 0
  /\ disk = << >>
  /\ crashed = FALSE
  /\ relays = 0
  /\ pc = [r \in Req |-> "idle"]
  /\ files = [r \in Req |-> {}]
  /\ formData = [r \in Req |-> [field1 |-> "", field2 |-> "", field5 |-> ""]]
  /\ now = [r \in Req |-> 0]
  /\ tokResp = [r \in Req |-> NoResp]
  /\ token = [r \in Req |-> null]
  /\ archiveName = [r \in Req |-> ""]
  /\ fileSize = [r \in Req |-> 0]
  /\ sessionId = [r \in Req |-> null]
  /\ offset = [r \in Req |-> 0]
  /\ chunkNumber = [r \in Req |-> 0]
  /\ readPos = [r \in Req |-> 0]
  /\ calls = [r \in Req |-> << >>]
  /\ res = [r \in Req |-> << >>]
  /\ nFetch = [r \in Req |-> 0]
  /\ prevFetch = [r \in Req |-> 0]
  /\ prevToken = [r \in Req |-> null]
  /\ cacheAtStart = [r \in Req |-> <<null, null>>]

\* ------------------------------------------------------------ local disk
Exists(d, p) == p \in DOMAIN d
WriteFile(d, p, r) == [q \in DOMAIN d \cup {p} |-> IF q = p THEN r ELSE d[q]]
Unlink(d, ps) == [q \in DOMAIN d \ ps |-> d[q]]

RECURSIVE WriteAll(_, _, _)
WriteAll(d, fs, r) ==
  IF fs = {} THEN d
  ELSE LET f == CHOOSE g \in fs : TRUE
       IN WriteAll(WriteFile(d, f.path, r), fs \ {f}, r)

\* ------------------------------------------------------------- the clock
Tick ==
  /\ ~crashed
  /\ time < MaxTime * MsPerSec
  /\ time' = time + MsPerSec
  /\ UNCHANGED <<tokenVars, issued, disk, crashed, relays, pc, files,
                 formData, now, tokResp, token, archiveName, uploadVars, res,
                 histVars>>

\* ------------------------------------------------------ the code's tests
\* Faulty variants of the tests below, each the way a slip in the code would
\* change it (a reversed or unit-confused comparison, a forgotten check, a
\* wrong stream option, an offset advanced by the wrong amount).
CacheValid_Reversed(n) ==
  Truthy(accessToken) /\ Truthy(tokenExpiry) /\ n > tokenExpiry
CacheValid_Seconds(n) ==
  Truthy(accessToken) /\ Truthy(tokenExpiry) /\ n < tokenExpiry \div MsPerSec
NoFiles_Skipped(fs) == FALSE
UseSingleShot_Strict(size) == size < CHUNK_SIZE
ChunkLength_Default(size, pos) == Min(1, size - pos)
NextOffset_Fixed(off, len) == off + CHUNK_SIZE
NextOffset_Count(off, len) == off + 1
CallFailed_Ignored(ok) == FALSE
CallFailed_Inverted(ok) == ok
HasToken_Unchecked(data) == TRUE
NeedsStart_Always(sid) == TRUE
Expiry_KeepsOld(n, expires_in) ==
  IF Truthy(tokenExpiry) THEN tokenExpiry ELSE n + expires_in * MsPerSec

\* accessToken && tokenExpiry && now < tokenExpiry
CacheValid(n) == Truthy(accessToken) /\ Truthy(tokenExpiry) /\ n < tokenExpiry

\* now + data.expires_in * 1000
Expiry(n, expires_in) == n + expires_in * MsPerSec

\* if (data.access_token)
HasToken(data) == Truthy(data.access_token)

\* if (!sessionId)
NeedsStart(sid) == ~Truthy(sid)

\* !files || files.length === 0
NoFiles(fs) == fs = {}

\* fileSize <= CHUNK_SIZE
UseSingleShot(size) == size <= CHUNK_SIZE

\* The read stream (highWaterMark: CHUNK_SIZE) of a file of `size` bytes, `pos`
\* of them delivered: the length of its next chunk, and whether it has ended.
ChunkLength(size, pos) == Min(CHUNK_SIZE, size - pos)
StreamEnded(size, pos) == pos >= size

\* offset += chunk.length
NextOffset(off, len) == off + len

\* !response.ok
CallFailed(ok) == ~ok

\* The session ids the remote service may return from a start call (non-empty
\* strings, so truthy).
SessionIds == {1, 2}

\* ---------------------------------------------------------- the responses
Report(status, success, message, name, count, total) ==
  [status |-> status, success |-> success, message |-> message,
   archiveName |-> name, filesCount |-> count, totalSize |-> total]

Respond(r, report) ==
  /\ res' = [res EXCEPT ![r] = Append(@, report)]
  /\ pc' = [pc EXCEPT ![r] = "done"]

\* catch (error) { res.status(500).json({success: false, message}) }
Fail(r, message) == Respond(r, Report(500, FALSE, message, "", 0, 0))

RECURSIVE SumSizes(_)
SumSizes(fs) ==
  IF fs = {} THEN 0
  ELSE LET f == CHOOSE g \in fs : TRUE IN f.size + SumSizes(fs \ {f})

\* The cleanup and the success report that follow uploadToDropbox's return.
Succeed(r) ==
  /\ disk' = Unlink(disk, {f.path : f \in files[r]}
                            \cup {ArchivePath(archiveName[r])})
  /\ Respond(r, Report(200, TRUE, "Upload reussi", archiveName[r],
                       Cardinality(files[r]), SumSizes(files[r])))

\* ------------------------------------------------------------ the relay
\* A request arrives in a free slot (the lowest one) and multer stores its
\* files under ./uploads before the handler runs.  The slot's variables start
\* afresh: they are the handler's locals.
FreeSlot(r) ==
  /\ pc[r] \in {"idle", "done"}
  /\ \A q \in Req : q < r => pc[q] \notin {"idle", "done"}

Stage(r, up) ==
  /\ ~crashed
  /\ FreeSlot(r)
  /\ relays < MaxRelays
  /\ relays' = relays + 1
  /\ files' = [files EXCEPT ![r] = StagedFiles(time, up[1])]
  /\ formData' = [formData EXCEPT ![r] = up[2]]
  /\ disk' = WriteAll(disk, StagedFiles(time, up[1]), r)
  /\ pc' = [pc EXCEPT ![r] = "staged"]
  /\ now' = [now EXCEPT ![r] = 0]
  /\ token' = [token EXCEPT ![r] = null]
  /\ archiveName' = [archiveName EXCEPT ![r] = ""]
  /\ fileSize' = [fileSize EXCEPT ![r] = 0]
  /\ sessionId' = [sessionId EXCEPT ![r] = null]
  /\ offset' = [offset EXCEPT ![r] = 0]
  /\ chunkNumber' = [chunkNumber EXCEPT ![r] = 0]
  /\ readPos' = [readPos EXCEPT ![r] = 0]
  /\ calls' = [calls EXCEPT ![r] = << >>]
  /\ res' = [res EXCEPT ![r] = << >>]
  /\ nFetch' = [nFetch EXCEPT ![r] = 0]
  /\ prevFetch' = [prevFetch EXCEPT ![r] = nFetch[r]]
  /\ prevToken' = [prevToken EXCEPT ![r] = token[r]]
  /\ cacheAtStart' = [cacheAtStart EXCEPT ![r] = <<null, null>>]
  /\ UNCHANGED <<time, tokenVars, issued, crashed, tokResp>>

\* From `const token = ...` on: the archive is named, its file is created and
\* the archiver started; the handler then awaits archive.finalize().
BeginArchive(r, tok) ==
  /\ token' = [token EXCEPT ![r] = tok]
  /\ archiveName' = [archiveName EXCEPT ![r] = ArchiveName(time, formData[r])]
  /\ disk' = WriteFile(disk, ArchivePath(ArchiveName(time, formData[r])), r)
  /\ pc' = [pc EXCEPT ![r] = "archiving"]

\* The handler's start: the empty request is refused, else refreshAccessToken
\* is called and either returns the cached token or sends the refresh.
HandleStart(r) ==
  /\ ~crashed
  /\ pc[r] = "staged"
  /\ IF NoFiles(files[r])
     THEN /\ Respond(r, Report(400, FALSE, "Aucun fichier uploade", "", 0, 0))
          /\ UNCHANGED <<now, token, archiveName, disk, histVars>>
     ELSE /\ now' = [now EXCEPT ![r] = time]
          /\ cacheAtStart' = [cacheAtStart EXCEPT ![r] = <<accessToken, tokenExpiry>>]
          /\ IF CacheValid(time)
             THEN /\ BeginArchive(r, accessToken)
                  /\ UNCHANGED nFetch
             ELSE /\ pc' = [pc EXCEPT ![r] = "tokenFetch"]
                  /\ nFetch' = [nFetch EXCEPT ![r] = @ + 1]
                  /\ UNCHANGED <<token, archiveName, disk>>
          /\ UNCHANGED <<res, prevFetch, prevToken>>
  /\ UNCHANGED <<time, tokenVars, issued, crashed, relays, files, formData,
                 tokResp, uploadVars>>

\* What the token endpoint may answer: any status, with or without an
\* access_token (a fresh one, with its lifetime in seconds).  A fetch that
\* rejects, or a body that is no JSON, throws at the same place as the body
\* without access_token does, and is not told apart from it.
Answers ==
  { [ok |-> ok, grant |-> FALSE, life |-> null] : ok \in BOOLEAN } \cup
  { [ok |-> ok, grant |-> TRUE, life |-> life] : ok \in BOOLEAN, life \in 1..MaxLife }

\* The token endpoint answers a refresh.
TokenEndpoint(r, ans) ==
  /\ ~crashed
  /\ pc[r] = "tokenFetch"
  /\ tokResp' = [tokResp EXCEPT ![r] =
                   [ok |-> ans.ok,
                    access_token |-> IF ans.grant THEN issued + 1 ELSE null,
                    expires_in |-> ans.life]]
  /\ issued' = IF ans.grant THEN issued + 1 ELSE issued
  /\ pc' = [pc EXCEPT ![r] = "tokenWait"]
  /\ UNCHANGED <<time, tokenVars, disk, crashed, relays, files, formData, now,
                 token, archiveName, uploadVars, res, histVars>>

\* refreshAccessToken resumes with the response's JSON.
RefreshResume(r) ==
  /\ ~crashed
  /\ pc[r] = "tokenWait"
  /\ LET data == tokResp[r] IN
       IF HasToken(data)
       THEN /\ accessToken' = data.access_token
            /\ tokenExpiry' = Expiry(now[r], data.expires_in)
            /\ BeginArchive(r, data.access_token)
            /\ UNCHANGED res
       ELSE /\ Fail(r, "Impossible d'obtenir le token")
            /\ UNCHANGED <<tokenVars, token, archiveName, disk>>
  /\ tokResp' = [tokResp EXCEPT ![r] = NoResp]
  /\ UNCHANGED <<time, issued, crashed, relays, files, formData, now,
                 uploadVars, histVars>>

\* ------------------------------------------------------- uploadToDropbox
Call(kind, sid, off, len) ==
  [kind |-> kind, session_id |-> sid, offset |-> off, len |-> len,
   status |-> "pending"]

\* The call log with its last (pending) call answered.
Settle(log, ok) ==
  [log EXCEPT ![Len(log)].status = IF ok THEN "ok" ELSE "failed"]

\* The chunk that the pending call carries.
PendingLen(r) == calls[r][Len(calls[r])].len

\* A throw inside uploadToDropbox: the handler's catch answers with it.
CallThrows(r, message) ==
  /\ Fail(r, message)
  /\ UNCHANGED <<disk, sessionId, offset, chunkNumber, readPos>>

\* uploadToDropbox returned: the handler cleans up and reports.
CallReturns(r) ==
  /\ Succeed(r)
  /\ UNCHANGED <<sessionId, offset, chunkNumber, readPos>>

\* The chunk loop takes the stream's next chunk and sends it (a start while
\* there is no session id, else an append at the offset), or the stream has
\* ended and the finish call is sent.  `size` is the file's, `log` is the call
\* log so far, `sid` and `off` are sessionId and offset as they now are.
LoopNext(r, size, log, sid, off) ==
  IF StreamEnded(size, readPos[r])
  THEN /\ calls' = [calls EXCEPT ![r] = Append(log, Call("finish", sid, off, 0))]
       /\ pc' = [pc EXCEPT ![r] = "upFinish"]
       /\ UNCHANGED <<chunkNumber, readPos>>
  ELSE LET len == ChunkLength(size, readPos[r]) IN
         /\ readPos' = [readPos EXCEPT ![r] = @ + len]
         /\ chunkNumber' = [chunkNumber EXCEPT ![r] = @ + 1]
         /\ IF NeedsStart(sid)
            THEN /\ calls' = [calls EXCEPT ![r] =
                                Append(log, Call("start", null, 0, len))]
                 /\ pc' = [pc EXCEPT ![r] = "upStart"]
            ELSE /\ calls' = [calls EXCEPT ![r] =
                                Append(log, Call("append", sid, off, len))]
                 /\ pc' = [pc EXCEPT ![r] = "upAppend"]

\* uploadToDropbox's start on an archive of `size` bytes: the single-shot
\* call with the whole file, or the chunk loop.
StartUpload(r, size) ==
  /\ fileSize' = [fileSize EXCEPT ![r] = size]
  /\ IF UseSingleShot(size)
     THEN /\ calls' = [calls EXCEPT ![r] = <<Call("upload", null, 0, size)>>]
          /\ pc' = [pc EXCEPT ![r] = "upSingle"]
          /\ UNCHANGED <<sessionId, offset, chunkNumber, readPos>>
     ELSE /\ LoopNext(r, size, << >>, null, 0)
          /\ UNCHANGED <<sessionId, offset>>

\* The archiver finished and the output closed: the archive, of `size` bytes,
\* is on disk and uploadToDropbox is entered (fs.statSync throws if the file
\* is gone).
ArchiveDone(r, size) ==
  /\ ~crashed
  /\ pc[r] = "archiving"
  /\ IF Exists(disk, ArchivePath(archiveName[r]))
     THEN /\ disk' = WriteFile(disk, ArchivePath(archiveName[r]), r)
          /\ StartUpload(r, size)
          /\ UNCHANGED res
     ELSE /\ Fail(r, "ENOENT")
          /\ UNCHANGED <<disk, uploadVars>>
  /\ UNCHANGED <<time, tokenVars, issued, crashed, relays, files, formData,
                 now, tokResp, token, archiveName, histVars>>

\* archive.on("error", (err) => { throw err; }): thrown from an event
\* callback, outside the handler's try: an uncaught exception ends the process.
ArchiveError(r) ==
  /\ ~crashed
  /\ pc[r] = "archiving"
  /\ crashed' = TRUE
  /\ UNCHANGED <<time, tokenVars, issued, disk, relays, pc, files, formData,
                 now, tokResp, token, archiveName, uploadVars, res, histVars>>

\* files/upload answers.
UploadResp(r, ok) ==
  /\ ~crashed
  /\ pc[r] = "upSingle"
  /\ calls' = [calls EXCEPT ![r] = Settle(@, ok)]
  /\ IF CallFailed(ok)
     THEN CallThrows(r, "Erreur Dropbox")
     ELSE CallReturns(r)
  /\ UNCHANGED <<time, tokenVars, issued, crashed, relays, files, formData,
                 now, tokResp, token, archiveName, fileSize, histVars>>

\* upload_session/start answers, with a session id when it succeeds.
StartResp(r, ok, sid) ==
  /\ ~crashed
  /\ pc[r] = "upStart"
  /\ IF CallFailed(ok)
     THEN /\ calls' = [calls EXCEPT ![r] = Settle(@, ok)]
          /\ CallThrows(r, "Erreur demarrage session")
     ELSE /\ sessionId' = [sessionId EXCEPT ![r] = sid]
          /\ offset' = [offset EXCEPT ![r] = NextOffset(@, PendingLen(r))]
          /\ LoopNext(r, fileSize[r], Settle(calls[r], ok), sid,
                      NextOffset(offset[r], PendingLen(r)))
          /\ UNCHANGED <<disk, res>>
  /\ UNCHANGED <<time, tokenVars, issued, crashed, relays, files, formData,
                 now, tokResp, token, archiveName, fileSize, histVars>>

\* upload_session/append_v2 answers.
AppendResp(r, ok) ==
  /\ ~crashed
  /\ pc[r] = "upAppend"
  /\ IF CallFailed(ok)
     THEN /\ calls' = [calls EXCEPT ![r] = Settle(@, ok)]
          /\ CallThrows(r, "Erreur append chunk")
     ELSE /\ offset' = [offset EXCEPT ![r] = NextOffset(@, PendingLen(r))]
          /\ LoopNext(r, fileSize[r], Settle(calls[r], ok), sessionId[r],
                      NextOffset(offset[r], PendingLen(r)))
          /\ UNCHANGED <<disk, res, sessionId>>
  /\ UNCHANGED <<time, tokenVars, issued, crashed, relays, files, formData,
                 now, tokResp, token, archiveName, fileSize, histVars>>

\* upload_session/finish answers.
FinishResp(r, ok) ==
  /\ ~crashed
  /\ pc[r] = "upFinish"
  /\ calls' = [calls EXCEPT ![r] = Settle(@, ok)]
  /\ IF CallFailed(ok)
     THEN CallThrows(r, "Erreur finalisation")
     ELSE CallReturns(r)
  /\ UNCHANGED <<time, tokenVars, issued, crashed, relays, files, formData,
                 now, tokResp, token, archiveName, fileSize, histVars>>

\* ------------------------------------------------------ the specification
\* The server with its requests coming one after the other: a request arrives
\* when no other is being handled.
Serial(r) == \A q \in Req \ {r} : pc[q] \in {"idle", "done"}

Arrive(r, up) == Serial(r) /\ Stage(r, up)

Next ==
  \/ Tick
  \/ \E r \in Req, up \in Uploads : Arrive(r, up)
  \/ \E r \in Req : HandleStart(r)
  \/ \E r \in Req, ans \in Answers : TokenEndpoint(r, ans)
  \/ \E r \in Req : RefreshResume(r)
  \/ \E r \in Req, size \in 1..MaxSize : ArchiveDone(r, size)
  \/ \E r \in Req : ArchiveError(r)
  \/ \E r \in Req, ok \in BOOLEAN : UploadResp(r, ok)
  \/ \E r \in Req, ok \in BOOLEAN, sid \in SessionIds : StartResp(r, ok, sid)
  \/ \E r \in Req, ok \in BOOLEAN : AppendResp(r, ok)
  \/ \E r \in Req, ok \in BOOLEAN : FinishResp(r, ok)

Spec == Init /\ [][Next]_vars

\* ------------------------------------------------------------ the claims
Idx(r) == 1..Len(calls[r])
KindCount(r, kind) == Cardinality({i \in Idx(r) : calls[r][i].kind = kind})
LastCall(r) == calls[r][Len(calls[r])]
CeilDiv(a, b) == (a + b - 1) \div b

\* The bytes carried by the first n calls of a log, and by its acknowledged calls.
RECURSIVE SentLen(_, _)
SentLen(log, n) == IF n = 0 THEN 0 ELSE log[n].len + SentLen(log, n - 1)
RECURSIVE AckedLen(_, _)
AckedLen(log, n) ==
  IF n = 0 THEN 0
  ELSE (IF log[n].status = "ok" THEN log[n].len ELSE 0) + AckedLen(log, n - 1)

\* uploadToDropbox was entered for the request in slot r.
Entered(r) == fileSize[r] # 0
\* The request's session upload ran to its end with every call succeeding.
Completed(r) ==
  /\ calls[r] # << >>
  /\ LastCall(r).kind = "finish"
  /\ LastCall(r).status = "ok"

\* C1: the strategy is chosen by the archive's size alone: an archive of at
\* most CHUNK_SIZE bytes (CHUNK_SIZE included) gets exactly one single-shot
\* upload call and no session call; a larger one gets no single-shot call and
\* goes through the session protocol, which opens with a start call.
C1_StrategyBySize ==
  \A r \in Req : Entered(r) =>
    IF fileSize[r] <= CHUNK_SIZE
    THEN /\ Len(calls[r]) = 1
         /\ calls[r][1].kind = "upload"
         /\ calls[r][1].len = fileSize[r]
    ELSE /\ KindCount(r, "upload") = 0
         /\ calls[r][1].kind = "start"
         /\ \A i \in Idx(r) : calls[r][i].kind \in {"start", "append", "finish"}

C1_Witness ==
  \E r \in Req : /\ fileSize[r] = CHUNK_SIZE
                 /\ pc[r] = "done"
                 /\ LastCall(r).status = "ok"

\* C2: a session upload (S > CHUNK_SIZE) that completes with every remote call
\* succeeding has issued ceil(S / CHUNK_SIZE) - 1 append calls.
C2_AppendCount ==
  \A r \in Req : (fileSize[r] > CHUNK_SIZE /\ Completed(r)) =>
    KindCount(r, "append") = CeilDiv(fileSize[r], CHUNK_SIZE) - 1

C2_Witness ==
  \E r \in Req : /\ Completed(r)
                 /\ 2 * fileSize[r] = 5 * CHUNK_SIZE
                 /\ KindCount(r, "start") = 1
                 /\ KindCount(r, "append") = 2

\* C3: the cursor offset of the session finish call equals S, the archive's
\* size, and the finish call comes only once every chunk of the archive was
\* sent by the start call or an append call, and acknowledged.
C3_FinishOffset ==
  \A r \in Req : \A i \in Idx(r) : calls[r][i].kind = "finish" =>
    /\ fileSize[r] > CHUNK_SIZE
    /\ calls[r][i].offset = fileSize[r]
    /\ SentLen(calls[r], i - 1) = fileSize[r]
    /\ \A j \in 1..(i - 1) : /\ calls[r][j].kind \in {"start", "append"}
                             /\ calls[r][j].status = "ok"

C3_Witness ==
  \E r \in Req : /\ pc[r] = "upFinish"
                 /\ fileSize[r] % CHUNK_SIZE # 0
                 /\ KindCount(r, "append") >= 2

\* C4: in a session upload the local offset always equals the bytes the
\* remote service has acknowledged so far; the offset argument of every
\* append call is the length of all the chunks sent before it, and the
\* offsets of successive append calls strictly increase.
C4_OffsetIsAcked ==
  \A r \in Req : fileSize[r] > CHUNK_SIZE =>
    /\ offset[r] = AckedLen(calls[r], Len(calls[r]))
    /\ \A i \in Idx(r) : calls[r][i].kind = "append" =>
         calls[r][i].offset = SentLen(calls[r], i - 1)
    /\ \A i, j \in Idx(r) :
         (i < j /\ calls[r][i].kind = "append" /\ calls[r][j].kind = "append")
           => calls[r][i].offset < calls[r][j].offset

C4_Witness ==
  \E r \in Req : /\ pc[r] = "upAppend"
                 /\ KindCount(r, "append") = 2
                 /\ LastCall(r).offset = 2 * CHUNK_SIZE
                 /\ offset[r] = 2 * CHUNK_SIZE

\* C5: a remote call of an upload that comes back with a non-success status
\* fails the transfer, and no remote call follows it: it is not retried, no
\* later chunk is sent and no finish call is issued.
C5_FailureStops ==
  \A r \in Req :
    /\ \A i \in Idx(r) : i < Len(calls[r]) => calls[r][i].status = "ok"
    /\ (calls[r] # << >> /\ LastCall(r).status = "failed") =>
         /\ pc[r] = "done"
         /\ Len(res[r]) = 1
         /\ ~res[r][1].success
         /\ res[r][1].status = 500

C5_Witness ==
  \E r \in Req : /\ Len(calls[r]) = 2
                 /\ LastCall(r).kind = "append"
                 /\ LastCall(r).status = "failed"
                 /\ fileSize[r] > 2 * CHUNK_SIZE

\* The step in which the handler of slot r calls refreshAccessToken.
CallsRefresh(r) == pc[r] = "staged" /\ pc'[r] # "staged" /\ files[r] # {}

\* C6: refreshAccessToken called while a token is cached and the time is
\* strictly before its expiry returns the cached token, sends nothing to the
\* token endpoint and leaves the cached token and expiry as they are.
C6_CacheHit ==
  [][\A r \in Req :
       (CallsRefresh(r) /\ accessToken # null /\ time < tokenExpiry) =>
         /\ token'[r] = accessToken
         /\ nFetch'[r] = nFetch[r]
         /\ pc'[r] # "tokenFetch"
         /\ accessToken' = accessToken
         /\ tokenExpiry' = tokenExpiry]_vars

C6_Witness ==
  \E r \in Req : /\ token[r] # null
                 /\ nFetch[r] = 0
                 /\ cacheAtStart[r] = <<token[r], tokenExpiry>>
                 /\ time > 0

\* C7: a refresh that the token endpoint answers with a non-success status,
\* or without an access_token, makes refreshAccessToken fail, with the cached
\* token and expiry left as they were.
C7_FailedRefreshKeepsCache ==
  [][\A r \in Req :
       (/\ pc[r] = "tokenWait"
        /\ pc'[r] # "tokenWait"
        /\ (~tokResp[r].ok \/ tokResp[r].access_token = null)) =>
         /\ pc'[r] = "done"
         /\ Len(res'[r]) = 1
         /\ ~res'[r][1].success
         /\ accessToken' = accessToken
         /\ tokenExpiry' = tokenExpiry]_vars

\* C8: of two requests served one after the other, the second starting while
\* the token the first obtained by a refresh is cached and not yet expired,
\* only the first calls the token endpoint: one call in all.
C8_TokenReuse ==
  \A r \in Req :
    (/\ pc[r] \notin {"idle", "staged"}
     /\ files[r] # {}
     /\ prevFetch[r] = 1
     /\ prevToken[r] # null
     /\ cacheAtStart[r][1] = prevToken[r]
     /\ now[r] < cacheAtStart[r][2]) =>
      prevFetch[r] + nFetch[r] = 1

C8_Witness ==
  \E r \in Req : /\ pc[r] = "done"
                 /\ res[r][1].success
                 /\ prevFetch[r] = 1
                 /\ cacheAtStart[r][1] = prevToken[r]
                 /\ now[r] > 0
                 /\ now[r] < cacheAtStart[r][2]
                 /\ token[r] = prevToken[r]

\* C9: once a request has been answered, with a success or a failure, none of
\* its staged files and not its archive is left on local storage.
C9_NothingLeftBehind ==
  \A r \in Req : (pc[r] = "done" /\ res[r] # << >>) =>
    /\ \A f \in files[r] : ~Exists(disk, f.path)
    /\ archiveName[r] # "" => ~Exists(disk, ArchivePath(archiveName[r]))

\* C10: a request without files is refused at once with the no-input error:
\* no token refresh is attempted, the token cache is unchanged, no archive is
\* created and no remote upload call is made.
C10_EmptyRequest ==
  [][\A r \in Req :
       (pc[r] = "staged" /\ pc'[r] # "staged" /\ files[r] = {}) =>
         /\ pc'[r] = "done"
         /\ res'[r] = <<Report(400, FALSE, "Aucun fichier uploade", "", 0, 0)>>
         /\ nFetch'[r] = 0
         /\ calls'[r] = << >>
         /\ archiveName'[r] = ""
         /\ UNCHANGED <<accessToken, tokenExpiry, issued, disk>>]_vars

C10_Witness ==
  \E r \in Req : /\ pc[r] = "done"
                 /\ files[r] = {}
                 /\ Len(res[r]) = 1
                 /\ res[r][1].status = 400
                 /\ accessToken # null

\* C11: a refresh answered without an access_token fails the request before
\* any archive work: no archive file is created, and no upload, start, append
\* or finish call is made for the request.
C11_NoArchiveWithoutToken ==
  [][\A r \in Req :
       (/\ pc[r] = "tokenWait"
        /\ pc'[r] # "tokenWait"
        /\ tokResp[r].access_token = null) =>
         /\ pc'[r] = "done"
         /\ Len(res'[r]) = 1
         /\ ~res'[r][1].success
         /\ token'[r] = null
         /\ archiveName'[r] = ""
         /\ disk' = disk
         /\ calls'[r] = << >>]_vars

C11_Witness ==
  \E r \in Req : /\ pc[r] = "done"
                 /\ nFetch[r] = 1
                 /\ token[r] = null
                 /\ res[r][1].message = "Impossible d'obtenir le token"
                 /\ files[r] # {}

\* The three kinds of failure of a request: the token refresh was answered
\* without a token, the archiver reported an error, a remote call was answered
\* with a non-success status.
RefreshFailed(r) ==
  /\ nFetch[r] = 1
  /\ pc[r] \notin {"staged", "tokenFetch", "tokenWait"}
  /\ token[r] = null
ArchiveFailed(r) == crashed /\ pc[r] = "archiving"
RemoteCallFailed(r) == \E i \in Idx(r) : calls[r][i].status = "failed"

\* C12: every failure of a request (token refresh, archive production, remote
\* call) stops its remaining steps and is answered with a structured failure,
\* success false and a message: no failure is left unreported.
C12_FailuresSurfaced ==
  \A r \in Req :
    (RefreshFailed(r) \/ ArchiveFailed(r) \/ RemoteCallFailed(r)) =>
      /\ pc[r] = "done"
      /\ Len(res[r]) = 1
      /\ ~res[r][1].success
      /\ res[r][1].message # ""

\* C15: a token handed to the caller of refreshAccessToken has an expiry
\* strictly later than the time at which it is handed over, whether it comes
\* from the cache or from a refresh, whatever the latency and the lifetime.
C15_ReturnedTokenNotExpired ==
  [][\A r \in Req :
       (token[r] = null /\ token'[r] # null) => tokenExpiry' > time]_vars

\* C18: a request is answered with success only if its commit call succeeded:
\* the single-shot upload of an archive of at most CHUNK_SIZE, the finish call
\* of a larger one.
C18_SuccessMeansCommitted ==
  \A r \in Req :
    (Len(res[r]) > 0 /\ res[r][1].success) =>
      /\ calls[r] # << >>
      /\ LastCall(r).status = "ok"
      /\ LastCall(r).kind = IF fileSize[r] <= CHUNK_SIZE THEN "upload"
                            ELSE "finish"
      /\ \A i \in Idx(r) : calls[r][i].status = "ok"

C18_Witness ==
  \E r \in Req : /\ Len(res[r]) = 1
                 /\ res[r][1].success
                 /\ res[r][1].status = 200
                 /\ fileSize[r] > CHUNK_SIZE
                 /\ LastCall(r).kind = "finish"

\* C17: in a session upload whose calls are all answered with success, the
\* first call is the only start, every append and the finish carry the
\* session id that the start returned, the finish is the only finish and the
\* last call, and a call is issued only once the one before it is acknowledged.
C17_SessionOrder ==
  \A r \in Req :
    (fileSize[r] > CHUNK_SIZE /\ calls[r] # << >>) =>
      LET log == calls[r] IN
      /\ log[1].kind = "start"
      /\ \A i \in Idx(r) :
           /\ i > 1 => /\ log[i].kind \in {"append", "finish"}
                       /\ sessionId[r] \in SessionIds
                       /\ log[i].session_id = sessionId[r]
           /\ log[i].kind = "finish" => i = Len(log)
           /\ i < Len(log) => log[i].status = "ok"
      /\ (Len(res[r]) = 1 /\ res[r][1].success) =>
           /\ KindCount(r, "start") = 1
           /\ KindCount(r, "finish") = 1
           /\ LastCall(r).kind = "finish"

C17_Witness ==
  \E r \in Req : /\ Completed(r)
                 /\ KindCount(r, "append") = 2
                 /\ Len(res[r]) = 1
                 /\ res[r][1].success

\* The steps by which a request that was received moves on: the handler's own
\* steps, the answers of the remote calls and the archiver's close or error.
RequestStep(r) ==
  \/ HandleStart(r)
  \/ \E ans \in Answers : TokenEndpoint(r, ans)
  \/ RefreshResume(r)
  \/ \E size \in 1..MaxSize : ArchiveDone(r, size)
  \/ ArchiveError(r)
  \/ \E ok \in BOOLEAN : UploadResp(r, ok)
  \/ \E ok \in BOOLEAN, sid \in SessionIds : StartResp(r, ok, sid)
  \/ \E ok \in BOOLEAN : AppendResp(r, ok)
  \/ \E ok \in BOOLEAN : FinishResp(r, ok)

\* C19: a request never hangs and is never answered twice: as long as it has
\* no response it has a step left to take (the remote calls return, the
\* archiver closes or errors), once it has taken its last step it has exactly
\* one response, and it never has more than one.
C19_OneResponse ==
  \A r \in Req :
    /\ Len(res[r]) <= 1
    /\ pc[r] = "done" => Len(res[r]) = 1
    /\ pc[r] \notin {"idle", "done"} => ENABLED RequestStep(r)

\* ------------------------------------------------- the archive's name alone
\* The naming of lines 289-295 applied to requests whose date and form fields
\* are drawn freely: fields that are missing, that spell a placeholder, that
\* contain the separator.
NameForms ==
  [field1 : {"", "inconnu", "a", "a_a"},
   field2 : {"", "a", "a_a"},
   field5 : {"", "projet"}]
Days == {0, MsPerDay}

InitName ==
  /\ time = 0
  /\ accessToken = null
  /\ tokenExpiry = null
  /\ issued = 0
  /\ disk = << >>
  /\ crashed = FALSE
  /\ relays = 0
  /\ pc = [r \in Req |-> "idle"]
  /\ files = [r \in Req |-> {}]
  /\ formData \in [Req -> NameForms]
  /\ now \in [Req -> Days]
  /\ tokResp = [r \in Req |-> NoResp]
  /\ token = [r \in Req |-> null]
  /\ archiveName = [r \in Req |-> ""]
  /\ fileSize = [r \in Req |-> 0]
  /\ sessionId = [r \in Req |-> null]
  /\ offset = [r \in Req |-> 0]
  /\ chunkNumber = [r \in Req |-> 0]
  /\ readPos = [r \in Req |-> 0]
  /\ calls = [r \in Req |-> << >>]
  /\ res = [r \in Req |-> << >>]
  /\ nFetch = [r \in Req |-> 0]
  /\ prevFetch = [r \in Req |-> 0]
  /\ prevToken = [r \in Req |-> null]
  /\ cacheAtStart = [r \in Req |-> <<null, null>>]

\* const date = new Date(); ... const archiveName = `...`: here now[r] is the
\* date of request r.
NameArchive(r) ==
  /\ pc[r] = "idle"
  /\ archiveName' = [archiveName EXCEPT ![r] = ArchiveName(now[r], formData[r])]
  /\ pc' = [pc EXCEPT ![r] = "named"]
  /\ UNCHANGED <<time, tokenVars, issued, disk, crashed, relays, files,
                 formData, now, tokResp, token, uploadVars, res, histVars>>

NextName == \E r \in Req : NameArchive(r)
SpecName == InitName /\ [][NextName]_vars

\* C16: the archive name is collision-free: two requests get the same name
\* only if they have the same date and the same name-forming fields, also
\* when a field is missing or contains the separator.
C16_CollisionFree ==
  \A r \in Req, q \in Req :
    (pc[r] = "named" /\ pc[q] = "named" /\ archiveName[r] = archiveName[q]) =>
      /\ DateStr(now[r]) = DateStr(now[q])
      /\ formData[r] = formData[q]

\* ------------------------------------------------------ overlapping requests
\* Express runs the handler of a request while those of others are suspended
\* at an await: requests arrive whenever a slot is free, and their steps
\* interleave.  The inputs are the ones concurrency depends on: one staged file,
\* an archive sent in one upload call, token answers with or without a token.
\* The archiver's error ends the process and with it every interleaving: it
\* is left to Spec.
ConcUploads == {up \in Uploads : up[1] = 1 /\ up[2].field1 = "a"}
ConcAnswers == {ans \in Answers : ans.ok /\ (ans.grant => ans.life = 1)}
ConcSizes == {1}

NextConc ==
  \/ Tick
  \/ \E r \in Req, up \in ConcUploads : Stage(r, up)
  \/ \E r \in Req : HandleStart(r)
  \/ \E r \in Req, ans \in ConcAnswers : TokenEndpoint(r, ans)
  \/ \E r \in Req : RefreshResume(r)
  \/ \E r \in Req, size \in ConcSizes : ArchiveDone(r, size)
  \/ \E r \in Req, ok \in BOOLEAN : UploadResp(r, ok)
SpecConc == Init /\ [][NextConc]_vars

\* The request has its archive file open or on disk: from createWriteStream
\* to the end of uploadToDropbox.
HoldsArchive(r) ==
  pc[r] \in {"archiving", "upSingle", "upStart", "upAppend", "upFinish"}

\* C13: overlapping requests share the token cache only: the archive file of
\* a request in flight is there and is the one this request wrote, no other
\* request having overwritten or deleted it, also when two requests have the
\* same date and the same form fields.
C13_ArchiveIsOwn ==
  \A r \in Req :
    HoldsArchive(r) =>
      /\ Exists(disk, ArchivePath(archiveName[r]))
      /\ disk[ArchivePath(archiveName[r])] = r

\* A refresh is under way: sent, or answered and not yet handled.
RefreshInFlight == \E r \in Req : pc[r] \in {"tokenFetch", "tokenWait"}

\* C14: when overlapping refreshes have all completed, the cache holds the
\* newest token, the one the token endpoint issued last.
C14_NewestTokenCached ==
  (issued > 0 /\ ~RefreshInFlight) => accessToken = issued

\* C20: the cached token and the cached expiry are both unset or both set,
\* and whenever the cache changes both fields are taken from the same answer
\* of the token endpoint: the answer's token, and the expiry computed from
\* the answer's lifetime and from the `now` of the call that received it.
C20_PairReplacedWhole ==
  /\ [](accessToken = null <=> tokenExpiry = null)
  /\ [][tokenVars' # tokenVars =>
          \E r \in Req :
            /\ pc[r] = "tokenWait"
            /\ tokResp[r].access_token # null
            /\ accessToken' = tokResp[r].access_token
            /\ tokenExpiry' = now[r] + tokResp[r].expires_in * MsPerSec]_vars

\* Two overlapping refreshes, answered in the reverse of their issue order,
\* with a request arriving later and refreshing at a later time.
C20_Witness ==
  \E r \in Req, q \in Req :
    /\ nFetch[r] = 1
    /\ nFetch[q] = 1
    /\ token[r] # null
    /\ token[q] # null
    /\ token[r] < token[q]
    /\ cacheAtStart[r] = cacheAtStart[q]
    /\ accessToken = token[r]
    /\ tokenExpiry # null

====
